---- MODULE Spec2Model ----
(***************************************************************************)
(* A model of scap.py: the structured extractor (StructuredDataParser),    *)
(* the normalizer/exporter (FormattedCSVExporter) and the orchestrator     *)
(* (FormattedScraper).                                                     *)
(*                                                                         *)
(* Python str values are sequences of one-character strings, so that the   *)
(* regular expressions of the source are computed character by character   *)
(* and dictionary keys that come from the document (table headers) can     *)
(* meet the fixed keys of the source.  A Python dict is a function whose   *)
(* DOMAIN is its key set.                                                  *)
(***************************************************************************)
EXTENDS Integers, Sequences, FiniteSets, TLC

(***************************************************************************)
(* Characters                                                              *)
(***************************************************************************)
Lower == {"a","b","c","d","e","f","g","h","i","j","k","l","m",
          "n","o","p","q","r","s","t","u","v","w","x","y","z"}

Upper == {"A","B","C","D","E","F","G","H","I","J","K","L","M",
          "N","O","P","Q","R","S","T","U","V","W","X","Y","Z"}

Digits == {"0","1","2","3","4","5","6","7","8","9"}

\* U+0001, a control character that is not whitespace.
CtrlA == "\\x01"

\* \s of a str pattern, and what str.strip() strips.
SpaceChars == {" ", "\t", "\n", "\r", "\f"}

IsSpace(c) == c \in SpaceChars

\* [\x00-\x1f\x7f-\x9f]
IsControl(c) == c \in {"\t", "\n", "\r", "\f", CtrlA}

\* [a-zA-Z]
AlphaChars == Lower \cup Upper

IsAlpha(c) == c \in AlphaChars

\* \d
IsDigit(c) == c \in Digits

\* \w, the characters between which \b finds no boundary
IsWordChar(c) == IsAlpha(c) \/ IsDigit(c) \/ c = "_"

(***************************************************************************)
(* Sequence helpers                                                        *)
(***************************************************************************)
Drop(s, n) == SubSeq(s, n + 1, Len(s))

Take(s, n) == SubSeq(s, 1, IF n < Len(s) THEN n ELSE Len(s))

Range(f) == {f[x] : x \in DOMAIN f}

RECURSIVE RunLen(_, _, _)
\* Length of the longest run of characters of the class S that starts at s[i].
RunLen(s, i, S) ==
    IF i > Len(s) \/ s[i] \notin S THEN 0 ELSE 1 + RunLen(s, i + 1, S)

RECURSIVE Flatten(_)
Flatten(ss) == IF ss = <<>> THEN <<>> ELSE Head(ss) \o Flatten(Tail(ss))

RECURSIVE StrOfNat(_)
\* str(n) for n >= 0
StrOfNat(n) ==
    LET d == <<"0","1","2","3","4","5","6","7","8","9">>[(n % 10) + 1]
    IN  IF n < 10 THEN <<d>> ELSE StrOfNat(n \div 10) \o <<d>>

(***************************************************************************)
(* The str literals of the source, as character sequences.  k_x is the     *)
(* dictionary key 'x'; s_x is the str value 'x'.                           *)
(***************************************************************************)
k_data_type == <<"d","a","t","a","_","t","y","p","e">>

k_source_url == <<"s","o","u","r","c","e","_","u","r","l">>

k_table_context == <<"t","a","b","l","e","_","c","o","n","t","e","x","t">>

k_row_index == <<"r","o","w","_","i","n","d","e","x">>

k_domain == <<"d","o","m","a","i","n">>

k_extraction_timestamp == <<"e","x","t","r","a","c","t","i","o","n","_","t","i","m","e","s","t","a","m","p">>

k_record_id == <<"r","e","c","o","r","d","_","i","d">>

k_additional_data == <<"a","d","d","i","t","i","o","n","a","l","_","d","a","t","a">>

k_version_number == <<"v","e","r","s","i","o","n","_","n","u","m","b","e","r">>

k_context == <<"c","o","n","t","e","x","t">>

k_element_type == <<"e","l","e","m","e","n","t","_","t","y","p","e">>

k_full_text == <<"f","u","l","l","_","t","e","x","t">>

k_list_context == <<"l","i","s","t","_","c","o","n","t","e","x","t">>

k_item_index == <<"i","t","e","m","_","i","n","d","e","x">>

k_content == <<"c","o","n","t","e","n","t">>

k_list_type == <<"l","i","s","t","_","t","y","p","e">>

k_total_items == <<"t","o","t","a","l","_","i","t","e","m","s">>

k_heading == <<"h","e","a","d","i","n","g">>

k_heading_level == <<"h","e","a","d","i","n","g","_","l","e","v","e","l">>

k_content_pieces == <<"c","o","n","t","e","n","t","_","p","i","e","c","e","s">>

\* f'column_{n}'
k_column(n) == <<"c","o","l","u","m","n","_">> \o StrOfNat(n)

\* f'Column_{n}', the synthesized header of a table without header cells
DefaultHeader(n) == <<"C","o","l","u","m","n","_">> \o StrOfNat(n)

s_table_data == <<"t","a","b","l","e","_","d","a","t","a">>

s_version_info == <<"v","e","r","s","i","o","n","_","i","n","f","o">>

s_list_item == <<"l","i","s","t","_","i","t","e","m">>

s_section_content == <<"s","e","c","t","i","o","n","_","c","o","n","t","e","n","t">>

s_unknown == <<"u","n","k","n","o","w","n">>

s_Table_ == <<"T","a","b","l","e","_">>

s_List_ == <<"L","i","s","t","_">>

s_Paragraph_ == <<"P","a","r","a","g","r","a","p","h","_">>

s_HeadingColon == <<"H","e","a","d","i","n","g",":"," ">>

s_Ellipsis == <<".",".",".">>

s_List == <<"L","i","s","t">>

s_Bar == <<" ","|"," ">>

s_table == <<"t","a","b","l","e">>

s_list == <<"l","i","s","t">>

s_heading == <<"h","e","a","d","i","n","g">>

s_paragraph == <<"p","a","r","a","g","r","a","p","h">>

(***************************************************************************)
(* _clean_text                                                             *)
(***************************************************************************)
\* str.strip()
Strip(s) ==
    LET a == RunLen(s, 1, SpaceChars)
        t == Drop(s, a)
        RECURSIVE Back(_)
        Back(n) == IF n > 0 /\ IsSpace(t[n]) THEN Back(n - 1) ELSE n
    IN  SubSeq(t, 1, Back(Len(t)))

RECURSIVE CollapseSpaces(_)
\* re.sub(r'\s+', ' ', s)
CollapseSpaces(s) ==
    IF s = <<>> THEN <<>>
    ELSE IF IsSpace(s[1])
         THEN <<" ">> \o CollapseSpaces(Drop(s, RunLen(s, 1, SpaceChars)))
         ELSE <<s[1]>> \o CollapseSpaces(Tail(s))

\* re.sub(r'[\x00-\x1f\x7f-\x9f]', '', s)
RemoveControl(s) == SelectSeq(s, LAMBDA c : ~IsControl(c))

RECURSIVE RemoveCitations(_)
\* re.sub(r'\[\d+\]', '', s)
RemoveCitations(s) ==
    IF s = <<>> THEN <<>>
    ELSE LET d == RunLen(s, 2, Digits)
         IN  IF s[1] = "[" /\ d >= 1 /\ Len(s) >= d + 2 /\ s[d + 2] = "]"
             THEN RemoveCitations(Drop(s, d + 2))
             ELSE <<s[1]>> \o RemoveCitations(Tail(s))

RECURSIVE FixPeriods(_)
\* re.sub(r'\s*\.\s*', '. ', s)
FixPeriods(s) ==
    IF s = <<>> THEN <<>>
    ELSE LET w == RunLen(s, 1, SpaceChars)
         IN  IF Len(s) > w /\ s[w + 1] = "."
             THEN <<".", " ">> \o
                  FixPeriods(Drop(s, w + 1 + RunLen(s, w + 2, SpaceChars)))
             ELSE <<s[1]>> \o FixPeriods(Tail(s))

clean_text(text) ==
    IF text = <<>> THEN <<>>
    ELSE Strip(FixPeriods(RemoveCitations(RemoveControl(
             CollapseSpaces(Strip(text))))))

(***************************************************************************)
(* _is_valid_content                                                       *)
(***************************************************************************)
\* SCRAPING_CONFIG['min_content_length']
min_content_length == 5

\* \b before s[i], where s[i] is a word character
BoundaryBefore(s, i) == i = 1 \/ ~IsWordChar(s[i - 1])

\* \b after s[i - 1], where s[i - 1] is a word character
BoundaryAt(s, i) == i > Len(s) \/ ~IsWordChar(s[i])

\* len(re.findall(r'\b[a-zA-Z]{2,}\b', text)) >= 1
HasWord(s) ==
    \E i \in 1..Len(s) :
        /\ IsAlpha(s[i])
        /\ BoundaryBefore(s, i)
        /\ LET n == RunLen(s, i, AlphaChars)
           IN  n >= 2 /\ BoundaryAt(s, i + n)

is_valid_content(text, min_length) ==
    /\ text # <<>>
    /\ Len(text) >= min_length
    /\ HasWord(text)

(***************************************************************************)
(* version_patterns of _extract_version_information: for each pattern,     *)
(* the position after a match that starts at s[i], or 0 when the pattern   *)
(* does not match there.                                                   *)
(***************************************************************************)
RECURSIVE DottedEnd(_, _, _)
\* \d+(\.\d+){n-1} from s[i]: the position after it, or 0
DottedEnd(s, i, n) ==
    LET a == RunLen(s, i, Digits)
    IN  IF a = 0 THEN 0
        ELSE IF n = 1 THEN i + a
        ELSE IF i + a <= Len(s) /\ s[i + a] = "."
             THEN DottedEnd(s, i + a + 1, n - 1)
             ELSE 0

\* r'\b\d+\.\d+\.\d+\b'
SemverEnd(s, i) ==
    LET e == DottedEnd(s, i, 3)
    IN  IF BoundaryBefore(s, i) /\ e > 0 /\ BoundaryAt(s, e) THEN e ELSE 0

\* r'\b\d+\.\d+\b'
PairEnd(s, i) ==
    LET e == DottedEnd(s, i, 2)
    IN  IF BoundaryBefore(s, i) /\ e > 0 /\ BoundaryAt(s, e) THEN e ELSE 0

\* r'\bv?\d+\.\d+\.\d+[a-zA-Z]?\b'
PrefixedEnd(s, i) ==
    LET j == IF s[i] = "v" THEN i + 1 ELSE i
        e == DottedEnd(s, j, 3)
    IN  IF ~BoundaryBefore(s, i) \/ e = 0 THEN 0
        ELSE IF e <= Len(s) /\ IsAlpha(s[e])
             THEN (IF BoundaryAt(s, e + 1) THEN e + 1 ELSE 0)
             ELSE (IF BoundaryAt(s, e) THEN e ELSE 0)

\* r'\b\d{4}-\d{2}-\d{2}\b'
IsoDateEnd(s, i) ==
    IF /\ BoundaryBefore(s, i)
       /\ i + 9 <= Len(s)
       /\ \A k \in {0, 1, 2, 3, 5, 6, 8, 9} : IsDigit(s[i + k])
       /\ s[i + 4] = "-" /\ s[i + 7] = "-"
       /\ BoundaryAt(s, i + 10)
    THEN i + 10 ELSE 0

MonthNames ==
    << <<"J","a","n","u","a","r","y">>, <<"F","e","b","r","u","a","r","y">>,
       <<"M","a","r","c","h">>, <<"A","p","r","i","l">>, <<"M","a","y">>,
       <<"J","u","n","e">>, <<"J","u","l","y">>, <<"A","u","g","u","s","t">>,
       <<"S","e","p","t","e","m","b","e","r">>, <<"O","c","t","o","b","e","r">>,
       <<"N","o","v","e","m","b","e","r">>, <<"D","e","c","e","m","b","e","r">> >>

\* r'\b(?:January|...|December)\s+\d{4}\b'
MonthYearEnd(s, i) ==
    LET fits == {m \in 1..Len(MonthNames) :
                    /\ i + Len(MonthNames[m]) - 1 <= Len(s)
                    /\ SubSeq(s, i, i + Len(MonthNames[m]) - 1) = MonthNames[m]}
    IN  IF fits = {} \/ ~BoundaryBefore(s, i) THEN 0
        ELSE LET m == CHOOSE x \in fits : \A y \in fits : x <= y
                 j == i + Len(MonthNames[m])
                 w == RunLen(s, j, SpaceChars)
                 e == j + w + 4
             IN  IF /\ w >= 1
                    /\ RunLen(s, j + w, Digits) >= 4
                    /\ BoundaryAt(s, e)
                 THEN e ELSE 0

NumPatterns == 5

PatternEnd(k, s, i) ==
    CASE k = 1 -> SemverEnd(s, i)
      [] k = 2 -> PairEnd(s, i)
      [] k = 3 -> PrefixedEnd(s, i)
      [] k = 4 -> IsoDateEnd(s, i)
      [] k = 5 -> MonthYearEnd(s, i)

RECURSIVE FindAllFrom(_, _, _)
FindAllFrom(k, s, i) ==
    IF i > Len(s) THEN <<>>
    ELSE LET e == PatternEnd(k, s, i)
         IN  IF e > 0
             THEN <<SubSeq(s, i, e - 1)>> \o FindAllFrom(k, s, e)
             ELSE FindAllFrom(k, s, i + 1)

\* re.findall(version_patterns[k], s)
FindAll(k, s) == FindAllFrom(k, s, 1)

(***************************************************************************)
(* Python values.  A value is tagged with its type, so that a str, an int  *)
(* and the str() of a dict can sit under the same key of different dicts.  *)
(* str(d) of a dict d is the value tagged "dictstr" that holds d: the      *)
(* printed form names every key and value of d and nothing else.           *)
(***************************************************************************)
PyStr(s) == [t |-> "str", v |-> s]

PyInt(n) == [t |-> "int", v |-> n]

PyStrOfDict(d) == [t |-> "dictstr", v |-> d]

\* bool(x)
Truthy(x) ==
    CASE x.t = "str" -> x.v # <<>>
      [] x.t = "int" -> x.v # 0
      [] OTHER -> TRUE

EmptyDict == [k \in {} |-> PyStr(<<>>)]

\* d[k] = x
DictSet(d, k, x) == [y \in DOMAIN d \cup {k} |-> IF y = k THEN x ELSE d[y]]

\* d.get(k, default)
DictGet(d, k, default) == IF k \in DOMAIN d THEN d[k] ELSE default

RECURSIVE DictOf(_)
\* {k1: v1, k2: v2, ...} from << <<k1, v1>>, <<k2, v2>>, ... >>
DictOf(pairs) ==
    IF pairs = <<>> THEN EmptyDict
    ELSE DictSet(DictOf(SubSeq(pairs, 1, Len(pairs) - 1)),
                 pairs[Len(pairs)][1], pairs[Len(pairs)][2])

\* {k: v for k, v in d.items() if k not in without}
DictWithout(d, without) == [k \in DOMAIN d \ without |-> d[k]]

(***************************************************************************)
(* The parsed document (the BeautifulSoup tree).  A document is the        *)
(* sequence of the elements of its body, in document order, and the        *)
(* whitespace its markup has between tags (ws, empty for minified markup). *)
(* Every element has the same fields; a table uses caption (zero or one    *)
(* text), thead (the rows of its <thead>), tbody (whether its other rows   *)
(* are in a <tbody>) and rows; a list uses items; the others use text.     *)
(* A row is [th, cells]: whether its cells are <th> or <td>, and their     *)
(* texts.                                                                  *)
(***************************************************************************)
HeadingTags == {"h1", "h2", "h3", "h4", "h5", "h6"}

ListTags == {"ul", "ol"}

Elem(tag, text) ==
    [tag |-> tag, text |-> text, caption |-> <<>>, thead |-> <<>>,
     tbody |-> FALSE, rows |-> <<>>, items |-> <<>>]

Table(caption, thead, tbody, rows) ==
    [tag |-> "table", text |-> <<>>, caption |-> caption, thead |-> thead,
     tbody |-> tbody, rows |-> rows, items |-> <<>>]

List(tag, items) ==
    [tag |-> tag, text |-> <<>>, caption |-> <<>>, thead |-> <<>>,
     tbody |-> FALSE, rows |-> <<>>, items |-> items]

Row(th, cells) == [th |-> th, cells |-> cells]

\* elem.name as a str
TagName(tag) ==
    CASE tag = "ul" -> <<"u","l">>
      [] tag = "ol" -> <<"o","l">>
      [] tag \in HeadingTags ->
            <<"h", <<"1","2","3","4","5","6">>[
                CHOOSE n \in 1..6 : <<"h1","h2","h3","h4","h5","h6">>[n] = tag]>>

\* soup.find_all(tags): the elements with one of the tags, in document order
FindAllTags(doc, tags) == SelectSeq(doc.body, LAMBDA e : e.tag \in tags)

RECURSIVE Join(_, _)
Join(texts, sep) ==
    IF texts = <<>> THEN <<>>
    ELSE IF Len(texts) = 1 THEN texts[1]
    ELSE texts[1] \o sep \o Join(Tail(texts), sep)

\* table.find_all('tr')
AllRows(t) == t.thead \o t.rows

RowCells(rows) == Flatten([i \in 1..Len(rows) |-> rows[i].cells])

\* elem.get_text(): the strings of the element, in document order
get_text(e, ws) ==
    CASE e.tag = "table" -> Join(e.caption \o RowCells(AllRows(e)), ws)
      [] e.tag \in ListTags -> Join(e.items, ws)
      [] OTHER -> e.text

RECURSIVE NetLocFrom(_, _)
NetLocFrom(u, i) ==
    IF i > Len(u) \/ u[i] \in {"/", "?", "#"} THEN <<>>
    ELSE <<u[i]>> \o NetLocFrom(u, i + 1)

\* urlparse(url).netloc
NetLoc(u) ==
    LET at == {i \in 1..(Len(u) - 1) : u[i] = "/" /\ u[i + 1] = "/"}
    IN  IF at = {} THEN <<>>
        ELSE NetLocFrom(u, 2 + CHOOSE i \in at : \A j \in at : i <= j)

CleanAll(texts) == [i \in 1..Len(texts) |-> clean_text(texts[i])]

(***************************************************************************)
(* _extract_structured_tables                                              *)
(***************************************************************************)
\* The local variable first_row: not yet assigned, None, or a row.
Unbound == [st |-> "unbound", row |-> Row(FALSE, <<>>)]

NoneRow == [st |-> "none", row |-> Row(FALSE, <<>>)]

BoundRow(r) == [st |-> "row", row |-> r]

\* Lines 183-197: the headers of table t and first_row after them, first_row
\* being fr before.  first_row is assigned only when <thead> gives no header.
ResolveHeaders(t, fr) ==
    LET h1 == CleanAll(RowCells(t.thead))
        trs == AllRows(t)
        h2 == IF trs = <<>> THEN <<>> ELSE CleanAll(trs[1].cells)
        widths == {Len(trs[i].cells) : i \in 1..Len(trs)}
        max_cols == IF trs = <<>> THEN 0
                    ELSE CHOOSE w \in widths : \A x \in widths : x <= w
    IN  IF h1 # <<>> THEN [headers |-> h1, first_row |-> fr]
        ELSE [headers |-> IF h2 # <<>> THEN h2
                          ELSE [i \in 1..max_cols |-> DefaultHeader(i)],
              first_row |-> IF trs = <<>> THEN NoneRow ELSE BoundRow(trs[1])]

\* Lines 213-219
BaseTableRecord(url, table_context, row_idx) ==
    DictOf(<< <<k_data_type, PyStr(s_table_data)>>,
              <<k_source_url, PyStr(url)>>,
              <<k_table_context, PyStr(table_context)>>,
              <<k_row_index, PyInt(row_idx)>>,
              <<k_domain, PyStr(NetLoc(url))>> >>)

RECURSIVE AddCells(_, _, _, _)
\* Lines 222-230, from the cell at (1-based) position i on
AddCells(record, cells, headers, i) ==
    IF i > Len(cells) THEN record
    ELSE LET col_name == IF i <= Len(headers) /\ headers[i] # <<>>
                         THEN headers[i] ELSE k_column(i)
             cell_text == clean_text(cells[i])
         IN  AddCells(IF is_valid_content(cell_text, min_content_length)
                      THEN DictSet(record, col_name, PyStr(cell_text))
                      ELSE record,
                      cells, headers, i + 1)

TableBaseKeys ==
    {k_data_type, k_source_url, k_table_context, k_row_index, k_domain}

\* Lines 233-234: any(data_fields.values())
HasDataFields(record) ==
    \E k \in DOMAIN record \ TableBaseKeys : Truthy(record[k])

\* Lines 203-235 for one table whose first_row is bound: the records of its
\* data rows
RowRecords(data_rows, headers, fr, url, table_context) ==
    LET rec(i) == AddCells(BaseTableRecord(url, table_context, i - 1),
                           data_rows[i].cells, headers, 1)
        keep == {i \in 1..Len(data_rows) :
                    /\ ~(fr.st = "row" /\ data_rows[i] = fr.row)
                    /\ data_rows[i].cells # <<>>
                    /\ HasDataFields(rec(i))}
        RECURSIVE From(_)
        From(i) == IF i > Len(data_rows) THEN <<>>
                   ELSE (IF i \in keep THEN <<rec(i)>> ELSE <<>>) \o From(i + 1)
    IN  From(1)

\* ExtractTable, had the except clause kept the rows read before the
\* failure: the rows of a table that raised stay in table_data
ExtractTableKeepingRows(t, table_idx, fr, url) ==
    LET table_context == IF t.caption # <<>> THEN clean_text(t.caption[1])
                         ELSE s_Table_ \o StrOfNat(table_idx + 1)
        rh == ResolveHeaders(t, fr)
        data_rows == IF t.tbody THEN t.rows ELSE AllRows(t)
    IN  [records |-> RowRecords(data_rows, rh.headers, rh.first_row,
                                url, table_context),
         raised |-> data_rows # <<>> /\ rh.first_row.st = "unbound",
         first_row |-> rh.first_row]

\* Lines 178-239: one iteration of the loop over the tables.  Reading
\* first_row before any table has assigned it raises (UnboundLocalError),
\* which the except clause turns into a warning; the table is skipped.
ExtractTable(t, table_idx, fr, url) ==
    LET table_context == IF t.caption # <<>> THEN clean_text(t.caption[1])
                         ELSE s_Table_ \o StrOfNat(table_idx + 1)
        rh == ResolveHeaders(t, fr)
        data_rows == IF t.tbody THEN t.rows ELSE AllRows(t)
        raises == data_rows # <<>> /\ rh.first_row.st = "unbound"
    IN  [records |-> IF raises THEN <<>>
                     ELSE RowRecords(data_rows, rh.headers, rh.first_row,
                                     url, table_context),
         raised |-> raises,
         first_row |-> rh.first_row]

RECURSIVE TablesFrom(_, _, _, _)
\* The loop over the tables from the table at (1-based) position i on:
\* [data, warned, first_row], warned the (0-based) indexes of the tables
\* whose processing raised, in order.
TablesFrom(tables, i, fr, url) ==
    IF i > Len(tables)
    THEN [data |-> <<>>, warned |-> <<>>, first_row |-> fr]
    ELSE LET one == ExtractTable(tables[i], i - 1, fr, url)
             rest == TablesFrom(tables, i + 1, one.first_row, url)
         IN  [data |-> one.records \o rest.data,
              warned |-> (IF one.raised THEN <<i - 1>> ELSE <<>>) \o rest.warned,
              first_row |-> rest.first_row]

extract_structured_tables(doc, url) ==
    TablesFrom(FindAllTags(doc, {"table"}), 1, Unbound, url)

(***************************************************************************)
(* _extract_structured_lists                                               *)
(***************************************************************************)
ContextTags == HeadingTags \cup {"strong", "b"}

\* Lines 314-317: find_previous gives the nearest element before the list
\* with a heading or emphasis tag.  p is the position of the list in the body.
ListContext(doc, p) ==
    LET before == {j \in 1..(p - 1) : doc.body[j].tag \in ContextTags}
    IN  IF before = {} THEN s_List
        ELSE LET j == CHOOSE x \in before : \A y \in before : y <= x
             IN  Take(clean_text(get_text(doc.body[j], doc.ws)), 100)

\* ListRecords, had total_items counted the items that were kept
ListRecordsCountingKept(list_elem, context, url) ==
    LET items == list_elem.items
        kept == {i \in 1..Len(items) :
                    is_valid_content(clean_text(items[i]), min_content_length)}
        rec(i) == DictOf(<< <<k_data_type, PyStr(s_list_item)>>,
                            <<k_source_url, PyStr(url)>>,
                            <<k_domain, PyStr(NetLoc(url))>>,
                            <<k_list_context, PyStr(context)>>,
                            <<k_item_index, PyInt(i - 1)>>,
                            <<k_content, PyStr(clean_text(items[i]))>>,
                            <<k_list_type, PyStr(TagName(list_elem.tag))>>,
                            <<k_total_items, PyInt(Cardinality(kept))>> >>)
        RECURSIVE From(_)
        From(i) ==
            IF i > Len(items) THEN <<>>
            ELSE (IF i \in kept THEN <<rec(i)>> ELSE <<>>) \o From(i + 1)
    IN  From(1)

\* Lines 319-332 for one list
ListRecords(list_elem, context, url) ==
    LET items == list_elem.items
        rec(i) == DictOf(<< <<k_data_type, PyStr(s_list_item)>>,
                            <<k_source_url, PyStr(url)>>,
                            <<k_domain, PyStr(NetLoc(url))>>,
                            <<k_list_context, PyStr(context)>>,
                            <<k_item_index, PyInt(i - 1)>>,
                            <<k_content, PyStr(clean_text(items[i]))>>,
                            <<k_list_type, PyStr(TagName(list_elem.tag))>>,
                            <<k_total_items, PyInt(Len(items))>> >>)
        RECURSIVE From(_)
        From(i) ==
            IF i > Len(items) THEN <<>>
            ELSE (IF is_valid_content(clean_text(items[i]), min_content_length)
                  THEN <<rec(i)>> ELSE <<>>) \o From(i + 1)
    IN  From(1)

extract_structured_lists(doc, url) ==
    LET at == SelectSeq([j \in 1..Len(doc.body) |-> j],
                        LAMBDA j : doc.body[j].tag \in ListTags)
    IN  Flatten([n \in 1..Len(at) |->
            ListRecords(doc.body[at[n]], ListContext(doc, at[n]), url)])

(***************************************************************************)
(* _extract_content_sections                                               *)
(***************************************************************************)
\* The children of the body: its elements, with a text node holding the
\* markup's whitespace between two elements when there is any.
Siblings(doc) ==
    IF doc.ws = <<>> THEN doc.body
    ELSE [j \in 1..(2 * Len(doc.body) - 1) |->
            IF j % 2 = 1 THEN doc.body[(j + 1) \div 2]
            ELSE Elem("#text", doc.ws)]

RECURSIVE GatherContent(_, _, _, _, _)
\* Lines 358-367: the while loop, next_elem being sibs[j] (None past the end)
GatherContent(sibs, j, content_limit, content_parts, ws) ==
    IF j > Len(sibs) \/ content_limit <= 0 THEN content_parts
    ELSE LET text == clean_text(get_text(sibs[j], ws))
             ok == is_valid_content(text, 30)
             parts == IF ok THEN Append(content_parts, text) ELSE content_parts
             limit == IF ok THEN content_limit - 1 ELSE content_limit
         IN  IF j + 1 <= Len(sibs) /\ sibs[j + 1].tag \in HeadingTags
             THEN parts
             ELSE GatherContent(sibs, j + 1, limit, parts, ws)

\* Lines 347-378 for the heading at position j of the siblings
SectionRecords(sibs, j, url, ws) ==
    LET heading_text == clean_text(sibs[j].text)
        content_parts == GatherContent(sibs, j + 1, 5, <<>>, ws)
    IN  IF heading_text = <<>> \/ content_parts = <<>> THEN <<>>
        ELSE << DictOf(<< <<k_data_type, PyStr(s_section_content)>>,
                          <<k_source_url, PyStr(url)>>,
                          <<k_domain, PyStr(NetLoc(url))>>,
                          <<k_heading, PyStr(heading_text)>>,
                          <<k_heading_level, PyStr(TagName(sibs[j].tag))>>,
                          <<k_content, PyStr(Join(Take(content_parts, 3), s_Bar))>>,
                          <<k_content_pieces, PyInt(Len(content_parts))>> >>) >>

extract_content_sections(doc, url) ==
    LET sibs == Siblings(doc)
        at == SelectSeq([j \in 1..Len(sibs) |-> j],
                        LAMBDA j : sibs[j].tag \in HeadingTags)
    IN  Flatten([n \in 1..Len(at) |-> SectionRecords(sibs, at[n], url, doc.ws)])

(***************************************************************************)
(* _extract_version_information                                            *)
(***************************************************************************)
\* Lines 278-286
VersionContext(elem_type, elem_idx, text) ==
    CASE elem_type = s_table -> s_Table_ \o StrOfNat(elem_idx + 1)
      [] elem_type = s_list -> s_List_ \o StrOfNat(elem_idx + 1)
      [] elem_type = s_heading -> s_HeadingColon \o Take(text, 50) \o s_Ellipsis
      [] OTHER -> s_Paragraph_ \o StrOfNat(elem_idx + 1)

\* Lines 288-297: the records of one pattern for one element
PatternRecords(k, elem_type, elem_idx, text, url) ==
    LET versions == Take(FindAll(k, text), 3)
    IN  [n \in 1..Len(versions) |->
            DictOf(<< <<k_data_type, PyStr(s_version_info)>>,
                      <<k_source_url, PyStr(url)>>,
                      <<k_domain, PyStr(NetLoc(url))>>,
                      <<k_version_number, PyStr(versions[n])>>,
                      <<k_context, PyStr(VersionContext(elem_type, elem_idx, text))>>,
                      <<k_element_type, PyStr(elem_type)>>,
                      <<k_full_text, PyStr(IF Len(text) > 200
                                           THEN Take(text, 200) \o s_Ellipsis
                                           ELSE text)>> >>)]

\* Lines 268-297 for one element
ElementVersions(elem_type, elem_idx, elem, url, ws) ==
    LET text == clean_text(get_text(elem, ws))
    IN  IF ~is_valid_content(text, 20) THEN <<>>
        ELSE Flatten([k \in 1..NumPatterns |->
                        PatternRecords(k, elem_type, elem_idx, text, url)])

extract_version_information(doc, url) ==
    LET of(elem_type, elements) ==
            Flatten([n \in 1..Len(elements) |->
                ElementVersions(elem_type, n - 1, elements[n], url, doc.ws)])
    IN  of(s_table, FindAllTags(doc, {"table"}))
        \o of(s_list, FindAllTags(doc, ListTags))
        \o of(s_heading, FindAllTags(doc, HeadingTags))
        \o of(s_paragraph, FindAllTags(doc, {"p"}))

(***************************************************************************)
(* parse_structured_data                                                   *)
(***************************************************************************)
\* SCRAPING_CONFIG
extract_tables == TRUE

extract_lists == TRUE

extract_sections == TRUE

RECURSIVE ZeroPad(_, _)
ZeroPad(s, width) == IF Len(s) >= width THEN s ELSE ZeroPad(<<"0">> \o s, width)

\* f"{hash(self.url) % 10000:04d}_{len(all_data)}"
RecordId(url_hash, n) == ZeroPad(StrOfNat(url_hash % 10000), 4) \o <<"_">> \o StrOfNat(n)

\* Lines 412-415
AddMetadata(all, timestamp, url_hash) ==
    [i \in 1..Len(all) |->
        DictSet(DictSet(all[i], k_extraction_timestamp, PyStr(timestamp)),
                k_record_id, PyStr(RecordId(url_hash, Len(all))))]

\* The records parse_structured_data returns for a document
parse_structured_data(doc, url, timestamp, url_hash) ==
    AddMetadata(
        (IF extract_tables THEN extract_structured_tables(doc, url).data ELSE <<>>)
        \o (IF extract_lists THEN extract_structured_lists(doc, url) ELSE <<>>)
        \o (IF extract_sections THEN extract_content_sections(doc, url) ELSE <<>>)
        \o extract_version_information(doc, url),
        timestamp, url_hash)

(***************************************************************************)
(* FormattedCSVExporter._organize_data                                     *)
(***************************************************************************)
\* record.get(x, '') where the key x is itself a value
GetByValue(record, x) ==
    IF x.t = "str" THEN DictGet(record, x.v, PyStr(<<>>)) ELSE PyStr(<<>>)

\* Lines 444-450
StandardBase(record) ==
    DictOf(<< <<k_record_id, DictGet(record, k_record_id, PyStr(<<>>))>>,
              <<k_data_type, DictGet(record, k_data_type, PyStr(s_unknown))>>,
              <<k_source_url, DictGet(record, k_source_url, PyStr(<<>>))>>,
              <<k_domain, DictGet(record, k_domain, PyStr(<<>>))>>,
              <<k_extraction_timestamp,
                DictGet(record, k_extraction_timestamp, PyStr(<<>>))>> >>)

StandardKeys ==
    {k_record_id, k_data_type, k_source_url, k_domain, k_extraction_timestamp}

RECURSIVE Update(_, _)
\* d.update({k1: v1, ...})
Update(d, pairs) ==
    IF pairs = <<>> THEN d
    ELSE Update(DictSet(d, pairs[1][1], pairs[1][2]), Tail(pairs))

\* Lines 459-462: record.get(record.get('column_n', 'column_n'), '')
ColumnSlot(record, n) ==
    GetByValue(record, DictGet(record, k_column(n), PyStr(k_column(n))))

\* Lines 463-464
AdditionalData(record) ==
    PyStrOfDict(DictWithout(record,
                            StandardKeys \cup {k_table_context, k_row_index}))

\* Lines 442-498 for one record
Standardize(record) ==
    LET standardized == StandardBase(record)
        data_type == DictGet(record, k_data_type, PyStr(<<>>))
        get(k) == DictGet(record, k, PyStr(<<>>))
        full_text == get(k_full_text)
        content_fields == DictWithout(record, StandardKeys \cup {k_data_type})
    IN  CASE data_type = PyStr(s_table_data) ->
                Update(standardized,
                    << <<k_table_context, get(k_table_context)>>,
                       <<k_row_index, get(k_row_index)>>,
                       <<k_column(1), ColumnSlot(record, 1)>>,
                       <<k_column(2), ColumnSlot(record, 2)>>,
                       <<k_column(3), ColumnSlot(record, 3)>>,
                       <<k_column(4), ColumnSlot(record, 4)>>,
                       <<k_additional_data, AdditionalData(record)>> >>)
          [] data_type = PyStr(s_version_info) ->
                Update(standardized,
                    << <<k_version_number, get(k_version_number)>>,
                       <<k_context, get(k_context)>>,
                       <<k_element_type, get(k_element_type)>>,
                       <<k_full_text, PyStr(Take(full_text.v, 100))>> >>)
          [] data_type = PyStr(s_list_item) ->
                Update(standardized,
                    << <<k_list_context, get(k_list_context)>>,
                       <<k_item_index, get(k_item_index)>>,
                       <<k_content, get(k_content)>>,
                       <<k_list_type, get(k_list_type)>>,
                       <<k_total_items, get(k_total_items)>> >>)
          [] data_type = PyStr(s_section_content) ->
                Update(standardized,
                    << <<k_heading, get(k_heading)>>,
                       <<k_heading_level, get(k_heading_level)>>,
                       <<k_content, get(k_content)>>,
                       <<k_content_pieces, get(k_content_pieces)>> >>)
          [] OTHER ->
                DictSet(standardized, k_content,
                        IF DOMAIN content_fields # {}
                        THEN PyStrOfDict(content_fields) ELSE PyStr(<<>>))

organize_data(data) == [i \in 1..Len(data) |-> Standardize(data[i])]

(***************************************************************************)
(* FormattedCSVExporter.export_formatted_csv                               *)
(***************************************************************************)
\* The code points of the characters column names are made of, ascending.
AsciiOrder ==
    <<"0","1","2","3","4","5","6","7","8","9","_",
      "a","b","c","d","e","f","g","h","i","j","k","l","m",
      "n","o","p","q","r","s","t","u","v","w","x","y","z">>

Ord(c) == CHOOSE i \in 1..Len(AsciiOrder) : AsciiOrder[i] = c

RECURSIVE StrLess(_, _)
\* a < b for two str
StrLess(a, b) ==
    IF b = <<>> THEN FALSE
    ELSE IF a = <<>> THEN TRUE
    ELSE IF a[1] = b[1] THEN StrLess(Tail(a), Tail(b))
    ELSE Ord(a[1]) < Ord(b[1])

RECURSIVE Sorted(_)
\* sorted(S) for a set of str
Sorted(S) ==
    IF S = {} THEN <<>>
    ELSE LET m == CHOOSE x \in S : \A y \in S \ {x} : StrLess(x, y)
         IN  <<m>> \o Sorted(S \ {m})

\* Line 513
base_columns == StandardKeys

\* Lines 514-519: the values of type_specific_columns
type_specific_columns ==
    { {k_table_context, k_row_index, k_column(1), k_column(2), k_column(3),
       k_column(4), k_additional_data},
      {k_version_number, k_context, k_element_type, k_full_text},
      {k_list_context, k_item_index, k_content, k_list_type, k_total_items},
      {k_heading, k_heading_level, k_content, k_content_pieces} }

\* Lines 522-524
all_columns == base_columns \cup UNION type_specific_columns

\* sorted(all_columns)
fieldnames == Sorted(all_columns)

\* What csv.DictWriter writes for a value: str(x) for an int
CsvField(x) == IF x.t = "int" THEN PyStr(StrOfNat(x.v)) ELSE x

\* FullRecord, had the row been written with the record's own columns only
FullRecordOfOwnColumns(record) ==
    [col \in Range(fieldnames) \cap DOMAIN record |-> CsvField(record[col])]

\* Line 533, as written by writer.writerow
FullRecord(record) ==
    [col \in Range(fieldnames) |-> CsvField(DictGet(record, col, PyStr(<<>>)))]

\* Lines 527-534: the file written for the organized rows data
CsvFile(data) ==
    [fieldnames |-> fieldnames,
     rows |-> [i \in 1..Len(data) |-> FullRecord(data[i])]]

s_csv == <<".","c","s","v">>

EndsWith(s, suffix) ==
    Len(s) >= Len(suffix) /\ SubSeq(s, Len(s) - Len(suffix) + 1, Len(s)) = suffix

\* Lines 504-505
CsvName(filename) == IF EndsWith(filename, s_csv) THEN filename ELSE filename \o s_csv

(***************************************************************************)
(* FormattedCSVExporter.export_by_data_type                                *)
(***************************************************************************)
LowerOf(c) ==
    IF c \in Upper
    THEN <<"a","b","c","d","e","f","g","h","i","j","k","l","m",
           "n","o","p","q","r","s","t","u","v","w","x","y","z">>[
           CHOOSE n \in 1..26 :
             <<"A","B","C","D","E","F","G","H","I","J","K","L","M",
               "N","O","P","Q","R","S","T","U","V","W","X","Y","Z">>[n] = c]
    ELSE c

\* data_type.replace(' ', '_').lower()
CleanType(data_type) ==
    [i \in 1..Len(data_type) |->
        IF data_type[i] = " " THEN "_" ELSE LowerOf(data_type[i])]

\* f"{base_filename}_{clean_type}.csv"
TypeFileName(base_filename, data_type) ==
    base_filename \o <<"_">> \o CleanType(data_type) \o s_csv

RECURSIVE TypesInOrder(_, _)
\* Lines 545-551: the keys of data_by_type, in insertion order
TypesInOrder(data, seen) ==
    IF data = <<>> THEN <<>>
    ELSE LET ty == DictGet(data[1], k_data_type, PyStr(s_unknown)).v
         IN  IF ty \in seen THEN TypesInOrder(Tail(data), seen)
             ELSE <<ty>> \o TypesInOrder(Tail(data), seen \cup {ty})

\* data_by_type[ty]
OfType(data, ty) ==
    SelectSeq(data, LAMBDA r : DictGet(r, k_data_type, PyStr(s_unknown)).v = ty)

(***************************************************************************)
(* The state                                                               *)
(***************************************************************************)
VARIABLES
    html_content,   \* StructuredDataParser: the document handed to __init__
    url,            \* StructuredDataParser.url
    hash_seed,      \* the process's str hash seed (hash(url) depends on it)
    pc,             \* where the caller of the parser and the exporter stands
    table_idx,      \* _extract_structured_tables: the index of the next table
    first_row,      \* _extract_structured_tables: the local first_row
    table_data,     \* _extract_structured_tables: the local table_data
    all_data,       \* parse_structured_data: the local all_data, then its result
    log,            \* the warnings and errors logged (by the current call)
    data,           \* FormattedCSVExporter.data
    files,          \* the files written: name -> [fieldnames, rows]
    stats,          \* FormattedScraper.stats
    urls,           \* run_scraping: its argument
    url_idx,        \* run_scraping: the (1-based) position of the next URL
    run_data,       \* run_scraping: the local all_data
    url_reports,    \* run_scraping: the local url_reports
    runs            \* the number of run_scraping calls made so far

vars == <<html_content, url, hash_seed, pc, table_idx, first_row, table_data,
          all_data, log, data, files, stats, urls, url_idx, run_data,
          url_reports, runs>>

parserVars == <<table_idx, first_row, table_data, all_data>>

scraperVars == <<stats, urls, url_idx, run_data, url_reports, runs>>

(***************************************************************************)
(* Inputs: texts, documents, URLs                                          *)
(***************************************************************************)
t_Widget == <<"W","i","d","g","e","t">>

t_V123 == <<"1",".","2",".","3">>

t_Name == <<"N","a","m","e">>

t_Version == <<"V","e","r","s","i","o","n">>

t_Alpha == <<"A","l","p","h","a">>

t_Gadget == <<"G","a","d","g","e","t">>

t_Blank == <<" "," "," ">>

t_Vendor == <<"V","e","n","d","o","r">>

t_Status == <<"S","t","a","t","u","s">>

t_Notes == <<"N","o","t","e","s">>

t_Extra == <<"E","x","t","r","a">>

t_Acme == <<"A","c","m","e"," ","C","o","r","p">>

t_Stable == <<"S","t","a","b","l","e">>

t_Fresh == <<"F","r","e","s","h"," ","b","u","i","l","d">>

t_Spare == <<"S","p","a","r","e"," ","p","a","r","t">>

\* An empty or absent document: `not html_content` holds
EmptyContent == [empty |-> TRUE, ws |-> <<>>, body |-> <<>>]

Doc(ws, body) == [empty |-> FALSE, ws |-> ws, body |-> body]

url_a == <<"h","t","t","p",":","/","/","a","/","x">>

url_b == <<"h","t","t","p",":","/","/","b","/">>

HashSeeds == {0, 1}

\* hash(url): fixed within a process, different from process to process
UrlHash(u, seed) == (Len(u) * 7919 + seed * 104729) % 1000003

\* datetime.now().isoformat(), at the n-th reading of the clock
Timestamp(n) == <<"T">> \o StrOfNat(n)

Warning(what, idx) == [level |-> "warning", what |-> what, idx |-> idx]

ErrorLog(what, idx) == [level |-> "error", what |-> what, idx |-> idx]

NoStats == [urls_processed |-> 0, urls_successful |-> 0, urls_failed |-> 0,
            total_records |-> 0]

NoFiles == [name \in {} |-> <<>>]

(***************************************************************************)
(* Bounds of the documents                                                 *)
(***************************************************************************)
\* The most cells a generated table row has.
MaxCols == 5

\* The most tables a generated many-table document has.
MaxTables == 3

\* The most items a generated list has.
MaxItems == 2

Letters26 ==
    <<"A","B","C","D","E","F","G","H","I","J","K","L","M",
      "N","O","P","Q","R","S","T","U","V","W","X","Y","Z">>

\* The i-th header name of a generated table: Name, Version, Field C, ...
PlainHeader(i) ==
    IF i = 1 THEN t_Name
    ELSE IF i = 2 THEN t_Version
    ELSE <<"F","i","e","l","d"," ">> \o <<Letters26[i]>>

\* The i-th cell of a generated data row: valid, distinct from column to column
PlainCell(i) == <<"C","e","l","l"," ">> \o <<Letters26[i]>>

\* Header names that meet the keys of the source, and the empty header
SpecialHeaders == {k_record_id, k_domain, k_data_type, k_table_context, <<>>}

\* A header row of w names, the p-th replaced by s
HeaderCells(w, p, s) == [i \in 1..w |-> IF i = p THEN s ELSE PlainHeader(i)]

\* A data row of w cells, the q-th (if any) not valid content
DataCells(w, q) == [i \in 1..w |-> IF i = q THEN t_V123 ELSE PlainCell(i)]

Newline == <<"\n">>

\* One table, its header row in <thead> (with or without <tbody>) or its
\* first row, and one data row
OneRowTables ==
    LET headers == {HeaderCells(w, p, s) :
                        w \in 1..MaxCols, p \in 1..MaxCols,
                        s \in SpecialHeaders \cup {t_Name}}
        rowsOf(h) == {DataCells(w, q) : w \in {Len(h), Len(h) + 1}, q \in {0, 1}}
        tablesOf(h, c) ==
            { Table(<<>>, <<>>, FALSE, <<Row(TRUE, h), Row(FALSE, c)>>),
              Table(<<>>, <<Row(TRUE, h)>>, TRUE, <<Row(FALSE, c)>>),
              Table(<<>>, <<Row(TRUE, h)>>, FALSE, <<Row(FALSE, c)>>) }
    IN  UNION { UNION { tablesOf(h, c) : c \in rowsOf(h) } : h \in headers }

\* Tables a many-table document is made of: with a header row or a <thead>,
\* with and without <tbody>, without rows, without a valid cell, with a
\* caption, with a data row that repeats another table's header row
SmallTables ==
    { Table(<<>>, <<>>, FALSE,
            <<Row(TRUE, <<t_Name, t_Version>>), Row(FALSE, <<t_Widget, t_Stable>>)>>),
      Table(<<>>, <<Row(TRUE, <<t_Name, t_Version>>)>>, TRUE,
            <<Row(FALSE, <<t_Gadget, t_Fresh>>)>>),
      Table(<<>>, <<Row(TRUE, <<t_Vendor, t_Status>>)>>, FALSE,
            <<Row(TRUE, <<t_Name, t_Version>>), Row(FALSE, <<t_Acme, t_Spare>>)>>),
      Table(<<t_Notes>>, <<>>, TRUE,
            <<Row(FALSE, <<t_Vendor>>), Row(FALSE, <<t_Acme>>), Row(FALSE, <<t_V123>>)>>),
      Table(<<>>, <<>>, FALSE, <<>>) }

RECURSIVE SeqsUpTo(_, _)
\* The sequences of at most n elements of S
SeqsUpTo(S, n) ==
    IF n = 0 THEN {<<>>}
    ELSE LET shorter == SeqsUpTo(S, n - 1)
         IN  shorter \cup {Append(s, x) : s \in {y \in shorter : Len(y) = n - 1}, x \in S}

ItemTexts == {t_Blank, t_Alpha, t_V123}

Lists == {List(tag, items) : tag \in ListTags, items \in SeqsUpTo(ItemTexts, MaxItems)}

t_Heading == <<"R","e","l","e","a","s","e"," ","n","o","t","e","s"," ","2","0","2","4","-","0","1","-","0","5"," ","e","d","i","t","i","o","n">>

t_Para == <<"R","e","l","e","a","s","e","d"," ","o","n"," ","2","0","2","4","-","0","1","-","0","5"," ","f","o","r"," ","e","v","e","r","y","o","n","e",","," ","a","g","a","i","n"," ","i","n"," ","M","a","y"," ","2","0","2","4">>

t_Short == <<"L","a","t","e","s","t">>

\* What stands between "Alpha" and "b" in the text of a list item: spaces,
\* control characters, brackets, citation markers and periods
Pieces == {<<" ">>, <<CtrlA>>, <<"[","1","]">>, <<"[">>, <<"2","]">>, <<".">>}

MaxPieces == 3

PiecedTexts ==
    {t_Alpha \o Flatten(m) \o <<"b">> : m \in SeqsUpTo(Pieces, MaxPieces)}

\* The text of a second heading
t_Changes == <<"C","h","a","n","g","e","s"," ","s","i","n","c","e"," ","t","h","e"," ","p","r","e","v","i","o","u","s"," ","r","e","l","e","a","s","e">>

\* A paragraph that names two ISO dates and two months
t_Dates == <<"B","u","i","l","d","s"," ","o","f"," ","2","0","2","4","-","0","1","-","0","5"," ","a","n","d"," ","2","0","2","4","-","0","2","-","0","6"," ","c","a","m","e"," ","i","n"," ","M","a","y"," ","2","0","2","4"," ","a","n","d"," ","J","u","n","e"," ","2","0","2","4">>

\* The example of a table with a version in a cell, with its header row as
\* the first row or in <thead>
ExampleTables ==
    { Table(<<>>, <<>>, FALSE,
            <<Row(TRUE, <<t_Name, t_Version>>), Row(FALSE, <<t_Widget, t_V123>>)>>),
      Table(<<>>, <<Row(TRUE, <<t_Name, t_Version>>)>>, TRUE,
            <<Row(FALSE, <<t_Widget, t_V123>>)>>) }

\* <ul><li>   </li><li>Alpha</li></ul>
ExampleList == List("ul", <<t_Blank, t_Alpha>>)

Documents ==
    LET oneTable == {Doc(Newline, <<tb>>) : tb \in OneRowTables}
        manyTables == {Doc(Newline, tbs) : tbs \in SeqsUpTo(SmallTables, MaxTables)}
        examples == {Doc(ws, <<tb>>) : ws \in {<<>>, Newline}, tb \in ExampleTables}
        lists == {Doc(Newline, pre \o <<l>>) :
                    pre \in {<<>>, <<Elem("h2", t_Heading)>>, <<Elem("strong", t_Short)>>},
                    l \in Lists}
                 \cup {Doc(Newline, <<l, List("ol", <<t_Fresh, t_Blank>>)>>) : l \in Lists}
        mixed == {Doc(ws, <<Elem("h2", t_Heading), Elem("p", t_Para),
                            CHOOSE tb \in ExampleTables : tb.thead = <<>>,
                            ExampleList, Elem("p", t_Short)>>) : ws \in {<<>>, Newline}}
        bare == {Doc(<<>>, <<>>), Doc(Newline, <<Elem("div", t_Para)>>)}
        dated == {Doc(Newline, <<Elem("p", t_Dates)>>)}
        sections == {Doc(ws, <<Elem("h2", t_Heading), Elem("h3", t_Changes),
                               Elem("p", t_Para)>>) : ws \in {<<>>, Newline}}
                    \cup {Doc(Newline, <<Elem("h2", t_Heading)>>
                                       \o [i \in 1..6 |-> Elem("p", t_Para)])}
        pieced == {Doc(Newline, <<List("ul", <<x>>)>>) : x \in PiecedTexts}
    IN  oneTable \cup manyTables \cup examples \cup lists \cup mixed \cup bare
        \cup dated \cup sections \cup pieced

\* What a caller may hand to StructuredDataParser
Contents == {EmptyContent} \cup Documents

(***************************************************************************)
(* The parser and the exporter, step by step                               *)
(***************************************************************************)
tables == FindAllTags(html_content, {"table"})

ExtractInit ==
    /\ html_content \in Contents
    /\ url = url_a
    /\ hash_seed \in HashSeeds
    /\ pc = "new"
    /\ table_idx = 0
    /\ first_row = Unbound
    /\ table_data = <<>>
    /\ all_data = <<>>
    /\ log = <<>>
    /\ data = <<>>
    /\ files = NoFiles
    /\ stats = NoStats
    /\ urls = <<>>
    /\ url_idx = 1
    /\ run_data = <<>>
    /\ url_reports = <<>>
    /\ runs = 0

\* Construct, had __init__ refused a document without elements as well
ConstructRefusingBare ==
    /\ pc = "new"
    /\ pc' = IF html_content.empty \/ html_content.body = <<>>
             THEN "value_error" ELSE "tables"
    /\ UNCHANGED <<html_content, url, hash_seed, parserVars, log, data, files,
                   scraperVars>>

\* StructuredDataParser.__init__, then the start of parse_structured_data
Construct ==
    /\ pc = "new"
    /\ pc' = IF html_content.empty THEN "value_error" ELSE "tables"
    /\ UNCHANGED <<html_content, url, hash_seed, parserVars, log, data, files,
                   scraperVars>>

\* _extract_structured_tables: one iteration of its loop
ExtractNextTable ==
    /\ pc = "tables"
    /\ table_idx < Len(tables)
    /\ LET one == ExtractTable(tables[table_idx + 1], table_idx, first_row, url)
       IN  /\ table_data' = table_data \o one.records
           /\ first_row' = one.first_row
           /\ log' = IF one.raised
                     THEN Append(log, Warning("Error parsing table", table_idx))
                     ELSE log
    /\ table_idx' = table_idx + 1
    /\ UNCHANGED <<html_content, url, hash_seed, pc, all_data, data, files,
                   scraperVars>>

\* parse_structured_data, lines 397-409: the tables are done; the lists, the
\* sections and the version references follow
ExtractOthers ==
    /\ pc = "tables"
    /\ table_idx = Len(tables)
    /\ all_data' = (IF extract_tables THEN table_data ELSE <<>>)
                   \o (IF extract_lists
                       THEN extract_structured_lists(html_content, url) ELSE <<>>)
                   \o (IF extract_sections
                       THEN extract_content_sections(html_content, url) ELSE <<>>)
                   \o extract_version_information(html_content, url)
    /\ pc' = "stamp"
    /\ UNCHANGED <<html_content, url, hash_seed, table_idx, first_row,
                   table_data, log, data, files, scraperVars>>

\* parse_structured_data, lines 412-418: timestamp and record_id, and return
Stamp ==
    /\ pc = "stamp"
    /\ all_data' = AddMetadata(all_data, Timestamp(0), UrlHash(url, hash_seed))
    /\ pc' = "parsed"
    /\ UNCHANGED <<html_content, url, hash_seed, table_idx, first_row,
                   table_data, log, data, files, scraperVars>>

\* FormattedCSVExporter.__init__ on the parser's records
NewExporter ==
    /\ pc = "parsed"
    /\ data' = organize_data(all_data)
    /\ pc' = "exporter"
    /\ UNCHANGED <<html_content, url, hash_seed, parserVars, log, files,
                   scraperVars>>

(***************************************************************************)
(* Writing files                                                           *)
(***************************************************************************)
\* export_formatted_csv, had it written the header for an exporter
\* without data
ExportWritingEmptyFile(d, filename, fs, io_ok) ==
    IF io_ok
    THEN [files |-> DictSet(fs, CsvName(filename), CsvFile(d)),
          raised |-> FALSE, warned |-> d = <<>>]
    ELSE [files |-> fs, raised |-> TRUE, warned |-> FALSE]

\* export_formatted_csv(filename) of an exporter whose data is d, on the
\* files fs; io_ok tells whether the file can be written.  Lines 504-541.
export_formatted_csv(d, filename, fs, io_ok) ==
    IF d = <<>> THEN [files |-> fs, raised |-> FALSE, warned |-> TRUE]
    ELSE IF io_ok
         THEN [files |-> DictSet(fs, CsvName(filename), CsvFile(d)),
               raised |-> FALSE, warned |-> FALSE]
         ELSE [files |-> fs, raised |-> TRUE, warned |-> FALSE]

RECURSIVE ExportTypesFrom(_, _, _, _, _, _)
\* Lines 553-561 from the n-th data type on; writing the file of the
\* fail_at-th type fails (none when fail_at = 0), which raises
ExportTypesFrom(d, types, n, base_filename, fs, fail_at) ==
    IF n > Len(types) THEN [files |-> fs, raised |-> FALSE]
    ELSE LET one == export_formatted_csv(organize_data(OfType(d, types[n])),
                        TypeFileName(base_filename, types[n]), fs, n # fail_at)
         IN  IF one.raised THEN [files |-> fs, raised |-> TRUE]
             ELSE ExportTypesFrom(d, types, n + 1, base_filename, one.files, fail_at)

\* export_by_data_type(base_filename)
export_by_data_type(d, base_filename, fs, fail_at) ==
    ExportTypesFrom(d, TypesInOrder(d, {}), 1, base_filename, fs, fail_at)

out_base == <<"o","u","t">>

\* exporter.export_formatted_csv(out_base)
ExportFormattedCsv ==
    /\ pc = "exporter"
    /\ \E io_ok \in BOOLEAN :
        LET r == export_formatted_csv(data, out_base, files, io_ok)
        IN  /\ files' = r.files
            /\ log' = IF r.warned THEN Append(log, Warning("No data to export", 0))
                      ELSE log
            /\ pc' = IF r.raised THEN "export_error" ELSE "exported"
    /\ UNCHANGED <<html_content, url, hash_seed, parserVars, data, scraperVars>>

\* exporter.export_by_data_type(out_base)
ExportByDataType ==
    /\ pc = "exported"
    /\ \E fail_at \in 0..Len(TypesInOrder(data, {})) :
        LET r == export_by_data_type(data, out_base, files, fail_at)
        IN  /\ files' = r.files
            /\ pc' = IF r.raised THEN "export_error" ELSE "done"
    /\ UNCHANGED <<html_content, url, hash_seed, parserVars, log, data,
                   scraperVars>>

ExtractNext ==
    \/ Construct
    \/ ExtractNextTable
    \/ ExtractOthers
    \/ Stamp
    \/ NewExporter
    \/ ExportFormattedCsv
    \/ ExportByDataType

\* One document through the parser and the exporter
ExtractSpec == ExtractInit /\ [][ExtractNext]_vars

(***************************************************************************)
(* FormattedScraper                                                        *)
(***************************************************************************)
k_report_type == <<"r","e","p","o","r","t","_","t","y","p","e">>

k_total_urls == <<"t","o","t","a","l","_","u","r","l","s">>

k_successful_urls == <<"s","u","c","c","e","s","s","f","u","l","_","u","r","l","s">>

k_failed_urls == <<"f","a","i","l","e","d","_","u","r","l","s">>

k_total_records == <<"t","o","t","a","l","_","r","e","c","o","r","d","s">>

k_success_rate == <<"s","u","c","c","e","s","s","_","r","a","t","e">>

k_scraping_duration == <<"s","c","r","a","p","i","n","g","_","d","u","r","a","t","i","o","n">>

k_url == <<"u","r","l">>

k_records_extracted == <<"r","e","c","o","r","d","s","_","e","x","t","r","a","c","t","e","d">>

k_status == <<"s","t","a","t","u","s">>

k_record_count == <<"r","e","c","o","r","d","_","c","o","u","n","t">>

k_percentage == <<"p","e","r","c","e","n","t","a","g","e">>

s_OVERALL_SUMMARY == <<"O","V","E","R","A","L","L","_","S","U","M","M","A","R","Y">>

s_URL_REPORT == <<"U","R","L","_","R","E","P","O","R","T">>

s_DATA_TYPE_SUMMARY == <<"D","A","T","A","_","T","Y","P","E","_","S","U","M","M","A","R","Y">>

s_success == <<"s","u","c","c","e","s","s">>

s_failed == <<"f","a","i","l","e","d">>

s_summary_csv == <<"_","s","u","m","m","a","r","y",".","c","s","v">>

\* The most URLs run_scraping is given.
MaxUrls == 2

\* The most run_scraping calls made on one FormattedScraper.
MaxRuns == 2

\* What StaticScraper.scrape returns for a URL, when it returns: an empty
\* body, a document without containers, and a document with records of
\* every type
FetchedContents ==
    {EmptyContent, Doc(Newline, <<Elem("div", t_Para)>>),
     Doc(Newline, <<Elem("h2", t_Heading), Elem("p", t_Para),
                    CHOOSE tb \in ExampleTables : tb.thead = <<>>,
                    ExampleList>>)}

\* The URLs run_scraping is given are the first ones of url_a, url_b,
\* url_a, ...
UrlAt(i) == IF i % 2 = 1 THEN url_a ELSE url_b

Init ==
    /\ html_content = EmptyContent
    /\ url = <<>>
    /\ hash_seed \in HashSeeds
    /\ pc = "idle"
    /\ table_idx = 0
    /\ first_row = Unbound
    /\ table_data = <<>>
    /\ all_data = <<>>
    /\ log = <<>>
    /\ data = <<>>
    /\ files = NoFiles
    /\ stats = NoStats
    /\ urls = <<>>
    /\ url_idx = 1
    /\ run_data = <<>>
    /\ url_reports = <<>>
    /\ runs = 0

\* The output_base of the n-th run_scraping call.  Every call is given a
\* base of its own; files holds the files under the current base and log
\* what the current call has logged.
OutputBase(n) == out_base \o StrOfNat(n)

\* run_scraping is called (lines 610-613)
StartRun ==
    /\ pc \in {"idle", "returned", "export_error"}
    /\ runs < MaxRuns
    /\ urls' \in {[i \in 1..n |-> UrlAt(i)] : n \in 0..MaxUrls}
    /\ runs' = runs + 1
    /\ url_idx' = 1
    /\ run_data' = <<>>
    /\ url_reports' = <<>>
    /\ files' = NoFiles
    /\ data' = <<>>
    /\ log' = <<>>
    /\ pc' = "scraping"
    /\ UNCHANGED <<html_content, url, hash_seed, parserVars, stats>>

\* ScrapeFailed, had the except clause not counted the URL as failed
ScrapeFailedUncounted(st) ==
    [data |-> <<>>,
     stats |-> [st EXCEPT !.urls_processed = @ + 1],
     logged |-> <<ErrorLog("Failed to scrape", st.urls_processed)>>]

\* scrape_url(u) when the fetch or the parser's constructor raises
\* (lines 602-606): [data, stats, logged]
ScrapeFailed(st) ==
    [data |-> <<>>,
     stats |-> [st EXCEPT !.urls_processed = @ + 1, !.urls_failed = @ + 1],
     logged |-> <<ErrorLog("Failed to scrape", st.urls_processed)>>]

\* What the parser logs for a document: a warning for each table whose
\* processing raised (line 238)
ParserWarnings(warned) ==
    [i \in 1..Len(warned) |-> Warning("Error parsing table", warned[i])]

\* Lines 594-600: the statistics after a parse that returned the records d
Parsed(st, d, warned) ==
    [data |-> d,
     stats |-> [st EXCEPT !.urls_processed = @ + 1,
                          !.urls_successful = @ + 1,
                          !.total_records = @ + Len(d)],
     logged |-> ParserWarnings(warned)]

\* scrape_url(u) when the fetch gives the document doc (lines 591-600)
ScrapeParsed(st, u, doc, seed) ==
    Parsed(st,
           parse_structured_data(doc, u, Timestamp(st.urls_processed),
                                 UrlHash(u, seed)),
           extract_structured_tables(doc, u).warned)

\* scrape_url(u): the fetch fails (fetched = FALSE) or gives content
scrape_url(st, u, fetched, content, seed) ==
    IF ~fetched \/ content.empty THEN ScrapeFailed(st)
    ELSE ScrapeParsed(st, u, content, seed)

\* Lines 619-623
UrlReport(u, d) ==
    [url |-> u, records_extracted |-> Len(d),
     status |-> IF d # <<>> THEN s_success ELSE s_failed]

\* Lines 615-623: one iteration of the loop over the URLs
ScrapeUrl ==
    /\ pc = "scraping"
    /\ url_idx <= Len(urls)
    /\ \E fetched \in BOOLEAN, content \in FetchedContents :
        \E r \in {scrape_url(stats, urls[url_idx], fetched, content, hash_seed)} :
            /\ stats' = r.stats
            /\ run_data' = run_data \o r.data
            /\ url_reports' = Append(url_reports, UrlReport(urls[url_idx], r.data))
            /\ log' = log \o r.logged
    /\ url_idx' = url_idx + 1
    /\ UNCHANGED <<html_content, url, hash_seed, pc, parserVars, data, files,
                   urls, runs>>

\* Lines 626-635 when nothing was collected: a warning, and the return
ReturnNoData ==
    /\ pc = "scraping"
    /\ url_idx > Len(urls)
    /\ run_data = <<>>
    /\ log' = Append(log, Warning("No data collected from any URL", 0))
    /\ pc' = "returned"
    /\ UNCHANGED <<html_content, url, hash_seed, parserVars, data, files,
                   scraperVars>>

\* _export_results, lines 640-641: an ExportException leaves run_scraping
ExportMain ==
    /\ pc = "scraping"
    /\ url_idx > Len(urls)
    /\ run_data # <<>>
    /\ data' = organize_data(run_data)
    /\ \E io_ok \in BOOLEAN :
        \E r \in {export_formatted_csv(data', OutputBase(runs), files, io_ok)} :
            /\ files' = r.files
            /\ pc' = IF r.raised THEN "export_error" ELSE "export_types"
    /\ UNCHANGED <<html_content, url, hash_seed, parserVars, log, scraperVars>>

\* _export_results, line 644
ExportTypes ==
    /\ pc = "export_types"
    /\ \E fail_at \in 0..Len(TypesInOrder(data, {})) :
        \E r \in {export_by_data_type(data, OutputBase(runs), files, fail_at)} :
            /\ files' = r.files
            /\ pc' = IF r.raised THEN "export_error" ELSE "summary"
    /\ UNCHANGED <<html_content, url, hash_seed, parserVars, log, data,
                   scraperVars>>

\* f"{num / den * 100:.1f}%"
PercentStr(num, den) ==
    LET q == (num * 1000) \div den
        r == (num * 1000) % den
        tenths == IF 2 * r > den THEN q + 1
                  ELSE IF 2 * r = den THEN q + (q % 2)
                  ELSE q
    IN  StrOfNat(tenths \div 10) \o <<".">> \o StrOfNat(tenths % 10) \o <<"%">>

\* Lines 692-694
summary_fieldnames ==
    <<k_report_type, k_total_urls, k_successful_urls, k_failed_urls,
      k_total_records, k_success_rate, k_scraping_duration, k_url,
      k_records_extracted, k_status, k_domain, k_data_type, k_record_count,
      k_percentage>>

\* writer.writerow(record) of the summary: a missing field is written ''
SummaryRow(record) ==
    [col \in Range(summary_fieldnames) |->
        CsvField(DictGet(record, col, PyStr(<<>>)))]

\* Lines 654-662.  The run's duration is not modelled (written as 0.0s).
OverallSummary(st, reports) ==
    DictOf(<< <<k_report_type, PyStr(s_OVERALL_SUMMARY)>>,
              <<k_total_urls, PyInt(Len(reports))>>,
              <<k_successful_urls, PyInt(st.urls_successful)>>,
              <<k_failed_urls, PyInt(st.urls_failed)>>,
              <<k_total_records, PyInt(st.total_records)>>,
              <<k_success_rate, PyStr(PercentStr(st.urls_successful, Len(reports)))>>,
              <<k_scraping_duration, PyStr(<<"0",".","0","s">>)>> >>)

\* Lines 665-672
UrlSummary(report) ==
    DictOf(<< <<k_report_type, PyStr(s_URL_REPORT)>>,
              <<k_url, PyStr(report.url)>>,
              <<k_records_extracted, PyInt(report.records_extracted)>>,
              <<k_status, PyStr(report.status)>>,
              <<k_domain, PyStr(NetLoc(report.url))>> >>)

\* Lines 675-686
TypeSummary(d, ty) ==
    DictOf(<< <<k_report_type, PyStr(s_DATA_TYPE_SUMMARY)>>,
              <<k_data_type, PyStr(ty)>>,
              <<k_record_count, PyInt(Len(OfType(d, ty)))>>,
              <<k_percentage, PyStr(PercentStr(Len(OfType(d, ty)), Len(d)))>> >>)

\* The summary file of _create_summary_report(output_base, reports, d)
SummaryFile(st, reports, d) ==
    LET types == TypesInOrder(d, {})
        summary_data ==
            <<OverallSummary(st, reports)>>
            \o [i \in 1..Len(reports) |-> UrlSummary(reports[i])]
            \o [i \in 1..Len(types) |-> TypeSummary(d, types[i])]
    IN  [fieldnames |-> summary_fieldnames,
         rows |-> [i \in 1..Len(summary_data) |-> SummaryRow(summary_data[i])]]

\* f"{output_base}_summary.csv"
SummaryName(output_base) == output_base \o s_summary_csv

\* _export_results, line 647, and the return of run_scraping: a failure to
\* write the summary is logged and goes no further (lines 703-704)
SummaryReport ==
    /\ pc = "summary"
    /\ \E io_ok \in BOOLEAN :
        IF io_ok
        THEN /\ files' = DictSet(files, SummaryName(OutputBase(runs)),
                                 SummaryFile(stats, url_reports, run_data))
             /\ log' = log
        ELSE /\ files' = files
             /\ log' = Append(log, ErrorLog("Error exporting summary", 0))
    /\ pc' = "returned"
    /\ UNCHANGED <<html_content, url, hash_seed, parserVars, data, scraperVars>>

Next ==
    \/ StartRun
    \/ ScrapeUrl
    \/ ReturnNoData
    \/ ExportMain
    \/ ExportTypes
    \/ SummaryReport

\* A FormattedScraper and the run_scraping calls made on it
Spec == Init /\ [][Next]_vars

(***************************************************************************)
(* Properties of the parser                                                *)
(***************************************************************************)
\* The keys every record carries whatever its type: type, source, position
\* in the table, and the metadata of lines 413-415
CommonKeys == TableBaseKeys \cup {k_extraction_timestamp, k_record_id}

\* The type-specific fields of a record
TypeFields(record) == DOMAIN record \ CommonKeys

NonEmptyAfterCleaning(x) == x.t = "str" /\ clean_text(x.v) # <<>>

\* The records of one data_type, in order
OfDataType(recs, ty) == SelectSeq(recs, LAMBDA r : r[k_data_type] = PyStr(ty))

\* C1: every record parse_structured_data returns for a non-empty document
\* has at least one type-specific field whose value is non-empty after
\* cleaning.
C1_EveryRecordHasATypeField ==
    pc = "parsed" =>
        \A i \in 1..Len(all_data) :
            \E k \in TypeFields(all_data[i]) : NonEmptyAfterCleaning(all_data[i][k])

\* The document is the table with header Name, Version and the one data row
\* Widget, 1.2.3
IsExampleTable ==
    /\ ~html_content.empty
    /\ Len(html_content.body) = 1
    /\ html_content.body[1] \in ExampleTables

\* C2: the table with header ["Name", "Version"] and the row
\* ["Widget", "1.2.3"] yields exactly one table record, whose type-specific
\* fields are {"Name": "Widget", "Version": "1.2.3"}, and exactly one version
\* record, whose version_number is "1.2.3".
C2_ExampleTableRecords ==
    (pc = "parsed" /\ IsExampleTable) =>
        /\ Len(OfDataType(all_data, s_table_data)) = 1
        /\ Len(OfDataType(all_data, s_version_info)) = 1
        /\ DictWithout(OfDataType(all_data, s_table_data)[1], CommonKeys)
             = DictOf(<< <<t_Name, PyStr(t_Widget)>>, <<t_Version, PyStr(t_V123)>> >>)
        /\ OfDataType(all_data, s_version_info)[1][k_version_number] = PyStr(t_V123)

\* thead of the table gives headers (line 187 leaves headers non-empty)
HasTheadHeaders(t) == CleanAll(RowCells(t.thead)) # <<>>

\* The rows line 201 finds
DataRowsOf(t) == IF t.tbody THEN t.rows ELSE AllRows(t)

\* The (1-based) positions of the tables whose processing fails: the table
\* has a data row to compare with first_row, and neither it nor a table
\* before it has assigned first_row
Failing(tbs) ==
    {k \in 1..Len(tbs) :
        DataRowsOf(tbs[k]) # <<>> /\ \A j \in 1..k : HasTheadHeaders(tbs[j])}

\* The tables at the positions outside F, in order
TablesOutside(tbs, F) ==
    LET at == SelectSeq([k \in 1..Len(tbs) |-> k], LAMBDA k : k \notin F)
    IN  [n \in 1..Len(at) |-> tbs[at[n]]]

\* Records without the label that holds the position of their table
WithoutContext(recs) ==
    [i \in 1..Len(recs) |-> DictWithout(recs[i], {k_table_context})]

TableWarnings == SelectSeq(log, LAMBDA e : e.what = "Error parsing table")

\* C3: when the processing of tables fails, the table records are exactly
\* those of the document without the failing tables (up to the position in
\* the label Table_n), and exactly one warning is logged for each failing
\* table.
C3_FailingTableIsSkipped ==
    pc = "stamp" =>
        /\ Len(TableWarnings) = Cardinality(Failing(tables))
        /\ \A k \in Failing(tables) :
             Cardinality({i \in 1..Len(TableWarnings) : TableWarnings[i].idx = k - 1}) = 1
        /\ WithoutContext(table_data)
             = WithoutContext(extract_structured_tables(
                   Doc(html_content.ws, TablesOutside(tables, Failing(tables))),
                   url).data)

\* One table of three fails; the two others give records
C3_Witness ==
    /\ pc = "stamp"
    /\ Len(tables) = 3
    /\ Cardinality(Failing(tables)) = 1
    /\ Len(TableWarnings) = 1
    /\ Len(table_data) >= 2

\* C4: StructuredDataParser(html_content, url) raises exactly when
\* html_content is empty or absent; for any other content no step of
\* parse_structured_data raises: every table is visited, a table that failed
\* leaving a warning only, and a finite sequence of records is returned.
C4_RaisesOnlyOnEmptyContent ==
    /\ pc = "value_error" => html_content.empty
    /\ pc \notin {"new", "value_error"} => ~html_content.empty
    /\ pc = "tables" => table_idx <= Len(tables)
    /\ pc \in {"stamp", "parsed"} =>
         /\ table_idx = Len(tables)
         /\ Len(TableWarnings) <= Len(tables)
         /\ DOMAIN all_data = 1..Len(all_data)

\* The records are returned for a document one of whose tables failed
C4_Witness ==
    /\ pc = "parsed"
    /\ TableWarnings # <<>>
    /\ all_data # <<>>

\* The positions of the items of a list whose cleaned text is valid content
ValidItems(list_elem) ==
    SelectSeq([i \in 1..Len(list_elem.items) |-> i],
              LAMBDA i : is_valid_content(clean_text(list_elem.items[i]),
                                          min_content_length))

\* What the claim expects of one list: for each valid item its content, its
\* index and the number of all the items
ExpectedItems(list_elem) ==
    [m \in 1..Len(ValidItems(list_elem)) |->
        [content |-> PyStr(clean_text(list_elem.items[ValidItems(list_elem)[m]])),
         item_index |-> PyInt(ValidItems(list_elem)[m] - 1),
         total_items |-> PyInt(Len(list_elem.items))]]

ExpectedListItems(doc) ==
    Flatten([n \in 1..Len(FindAllTags(doc, ListTags)) |->
                ExpectedItems(FindAllTags(doc, ListTags)[n])])

ListItems == OfDataType(all_data, s_list_item)

C6_FixedColumns ==
    /\ \A i \in 1..(Len(fieldnames) - 1) : StrLess(fieldnames[i], fieldnames[i + 1])
    /\ Range(fieldnames) = base_columns \cup UNION type_specific_columns
    /\ \A name \in DOMAIN files :
         /\ files[name].fieldnames = fieldnames
         /\ \A i \in 1..Len(files[name].rows) :
              DOMAIN files[name].rows[i] = Range(fieldnames)
    /\ CsvName(out_base) \in DOMAIN files =>
         /\ Len(files[CsvName(out_base)].rows) = Len(data)
         /\ \A i \in 1..Len(data) :
              \A col \in Range(fieldnames) \ DOMAIN data[i] :
                  files[CsvName(out_base)].rows[i][col] = PyStr(<<>>)

\* The combined file and the files of two types or more are written
C6_Witness ==
    /\ pc = "done"
    /\ CsvName(out_base) \in DOMAIN files
    /\ Cardinality(DOMAIN files) >= 3
    /\ \E i \in 1..Len(data) : k_heading \notin DOMAIN data[i]

\* sub occurs in s
Contains(s, sub) ==
    \E i \in 0..(Len(s) - Len(sub)) : SubSeq(s, i + 1, i + Len(sub)) = sub

\* The text can be read in the value x of a column: it is a value of the
\* dict x is the str of, or a part of the str x
RecoverableFrom(x, text) ==
    CASE x.t = "dictstr" -> \E k \in DOMAIN x.v : x.v[k] = PyStr(text)
      [] x.t = "str" -> Contains(x.v, text)
      [] OTHER -> FALSE

\* The cells of the row the first record was made of
FirstRecordCells ==
    DataRowsOf(tables[1])[all_data[1][k_row_index].v + 1].cells

\* C7: for a table record made of more than four valid cells, every cell
\* value beyond the first four is in the additional_data column of its row,
\* whatever the names of the headers.
C7_WideRowsKeepTheirCells ==
    (/\ pc = "exporter"
     /\ Len(tables) = 1
     /\ all_data # <<>>
     /\ all_data[1][k_data_type] = PyStr(s_table_data)
     /\ all_data[1][k_row_index].t = "int")
    => LET valid == {j \in 1..Len(FirstRecordCells) :
                        is_valid_content(clean_text(FirstRecordCells[j]),
                                         min_content_length)}
       IN  Cardinality(valid) > 4 =>
               \A j \in valid :
                   j > 4 => RecoverableFrom(data[1][k_additional_data],
                                            clean_text(FirstRecordCells[j]))

\* The document has no table, list, heading or paragraph
NoContainers ==
    FindAllTags(html_content, {"table", "p"} \cup ListTags \cup HeadingTags) = <<>>

\* C10: an exporter without records writes no file, combined or per type,
\* and logs a warning; a document without containers gives no record, hence
\* no file.
C10_NoRecordsNoFile ==
    /\ (pc \in {"parsed", "exporter"} /\ NoContainers) => all_data = <<>>
    /\ (pc \in {"exporter", "exported", "done", "export_error"} /\ all_data = <<>>)
         => data = <<>>
    /\ data = <<>> => pc # "export_error"
    /\ (pc \in {"exported", "done"} /\ data = <<>>) =>
         /\ files = NoFiles
         /\ \E i \in 1..Len(log) : log[i] = Warning("No data to export", 0)

\* The document without elements went through both exports
C10_Witness ==
    /\ pc = "done"
    /\ html_content = Doc(<<>>, <<>>)
    /\ data = <<>>
    /\ files = NoFiles
    /\ log = <<Warning("No data to export", 0)>>

(***************************************************************************)
(* Properties of run_scraping                                              *)
(***************************************************************************)
ScrapeErrors == SelectSeq(log, LAMBDA e : e.what = "Failed to scrape")

\* One iteration of the loop over the URLs: the next URL gets its report,
\* and the loop goes on, whether scraping it failed or not; a failure is
\* logged and counted, and reported as failed with no record
C8_Iteration ==
    (pc = "scraping" /\ url_idx <= Len(urls)) =>
        /\ pc' = "scraping"
        /\ url_idx' = url_idx + 1
        /\ Len(url_reports') = Len(url_reports) + 1
        /\ SubSeq(url_reports', 1, Len(url_reports)) = url_reports
        /\ url_reports'[Len(url_reports')].url = urls[url_idx]
        /\ stats'.urls_processed = stats.urls_processed + 1
        /\ \/ /\ Len(ScrapeErrors') = Len(ScrapeErrors) + 1
              /\ stats'.urls_failed = stats.urls_failed + 1
              /\ stats'.urls_successful = stats.urls_successful
              /\ url_reports'[Len(url_reports')].status = s_failed
              /\ url_reports'[Len(url_reports')].records_extracted = 0
              /\ run_data' = run_data
           \/ /\ ScrapeErrors' = ScrapeErrors
              /\ stats'.urls_failed = stats.urls_failed
              /\ stats'.urls_successful = stats.urls_successful + 1

\* What run_scraping returns has one report for each URL, in the order of
\* the URLs
C8_Reports ==
    /\ pc = "scraping" => Len(url_reports) = url_idx - 1
    /\ pc = "returned" =>
         /\ Len(url_reports) = Len(urls)
         /\ \A i \in 1..Len(urls) : url_reports[i].url = urls[i]

\* C8: in run_scraping a failure to fetch or to parse one URL is caught and
\* counted as a failed URL, every URL after it is still processed, and the
\* url_reports returned hold exactly one entry for each URL given, in the
\* order given.
C8_FailuresAreIsolated == []C8_Reports /\ [][C8_Iteration]_vars

\* The first URL failed, the second gave records, and the call returned
C8_Witness ==
    /\ pc = "returned"
    /\ Len(urls) = 2
    /\ url_reports[1].status = s_failed
    /\ url_reports[2].status = s_success
    /\ Len(ScrapeErrors) = 1
    /\ stats.urls_failed >= 1

\* The summary was written, or writing it failed and was logged
SummaryAttempted ==
    \/ SummaryName(OutputBase(runs)) \in DOMAIN files
    \/ \E i \in 1..Len(log) : log[i] = ErrorLog("Error exporting summary", 0)

\* C9: a failure to write an output file ends that export operation only:
\* once run_scraping is over for URLs that gave records, the summary has
\* been attempted and the records have been returned.
C9_ExportFailureIsLocal ==
    (pc \in {"returned", "export_error"} /\ run_data # <<>>) =>
        /\ pc = "returned"
        /\ SummaryAttempted

(***************************************************************************)
(* Properties of the sub-extractors                                        *)
(***************************************************************************)
\* The header names of a table in the order of priority: the cells of
\* <thead>, else the cells of the first row, else positional names
PriorityHeaders(t) ==
    IF HasTheadHeaders(t) THEN CleanAll(RowCells(t.thead))
    ELSE IF t.rows # <<>> /\ t.rows[1].cells # <<>> THEN CleanAll(t.rows[1].cells)
    ELSE [i \in 1..Len(RowCells(t.rows)) |-> DefaultHeader(i)]

\* The rows of a table after its header row
RowsAfterHeader(t) ==
    IF HasTheadHeaders(t) \/ t.rows = <<>> THEN t.rows ELSE Tail(t.rows)

HasValidCell(row) ==
    \E j \in 1..Len(row.cells) :
        is_valid_content(clean_text(row.cells[j]), min_content_length)

\* The number of rows after the header row that have a valid cell
RowsWithContent(t) ==
    Cardinality({i \in 1..Len(RowsAfterHeader(t)) : HasValidCell(RowsAfterHeader(t)[i])})

\* The names a cell of the table may be stored under
NamesOf(t) ==
    Range(PriorityHeaders(t)) \cup {k_column(i) : i \in 1..MaxCols + 1}

\* C11: for a document of one table, whatever the place of its header row,
\* the header row gives no record, every row after it that has a valid cell
\* gives exactly one table record, and the type-specific fields of these
\* records are keyed by the header names resolved in the order of priority.
C11_RowsAfterHeaderGiveRecords ==
    (pc = "stamp" /\ Len(tables) = 1) =>
        /\ Len(table_data) = RowsWithContent(tables[1])
        /\ \A i \in 1..Len(table_data) :
             DOMAIN table_data[i] \ TableBaseKeys \subseteq NamesOf(tables[1])


\* The version records of all_data that came from the element of this
\* element_type and context
VersionRecordsOf(elem_type, context) ==
    {i \in 1..Len(all_data) :
        /\ all_data[i][k_data_type] = PyStr(s_version_info)
        /\ all_data[i][k_element_type] = elem_type
        /\ all_data[i][k_context] = context}

\* C12: once the extractors have run, no scanned element (told by its
\* element_type and context) has more than 3 version records, however many
\* of the patterns match its text.
C12_AtMostThreePerElement ==
    pc \in {"stamp", "parsed"} =>
        \A i \in 1..Len(all_data) :
            all_data[i][k_data_type] = PyStr(s_version_info) =>
                Cardinality(VersionRecordsOf(all_data[i][k_element_type],
                                             all_data[i][k_context])) <= 3


\* The number of places of s where sub starts
Occurrences(s, sub) ==
    Cardinality({i \in 0..(Len(s) - Len(sub)) : SubSeq(s, i + 1, i + Len(sub)) = sub})

HeadingTexts ==
    {clean_text(html_content.body[j].text) :
        j \in {n \in 1..Len(html_content.body) :
                  html_content.body[n].tag \in HeadingTags}}

\* C13: once the extractors have run, the content of a section record holds
\* the text of no heading of the document, counts at most 5 gathered pieces
\* and joins at most 3 of them.
C13_SectionsStopAtTheNextHeading ==
    pc \in {"stamp", "parsed"} =>
        \A i \in 1..Len(all_data) :
            all_data[i][k_data_type] = PyStr(s_section_content) =>
                /\ \A h \in HeadingTexts : ~Contains(all_data[i][k_content].v, h)
                /\ all_data[i][k_content_pieces].v <= 5
                /\ Occurrences(all_data[i][k_content].v, s_Bar) <= 2


\* s[i] opens a bracketed numeric citation marker
CitationAt(s, i) ==
    /\ s[i] = "["
    /\ RunLen(s, i + 1, Digits) >= 1
    /\ i + 1 + RunLen(s, i + 1, Digits) <= Len(s)
    /\ s[i + 1 + RunLen(s, i + 1, Digits)] = "]"

\* What text cleaning is to leave behind
Cleaned(s) ==
    /\ \A i \in 1..(Len(s) - 1) : ~(IsSpace(s[i]) /\ IsSpace(s[i + 1]))
    /\ s # <<>> => ~IsSpace(s[1]) /\ ~IsSpace(s[Len(s)])
    /\ \A i \in 1..Len(s) : ~IsControl(s[i])
    /\ \A i \in 1..Len(s) : ~CitationAt(s, i)

\* C14: the content of every list item record, which is the cleaned text of
\* the item, has no two whitespace characters in a row, no whitespace at
\* either end, no control character and no bracketed numeric citation marker.
C14_CleanedText ==
    pc \in {"stamp", "parsed"} =>
        \A i \in 1..Len(all_data) :
            all_data[i][k_data_type] = PyStr(s_list_item) =>
                Cleaned(all_data[i][k_content].v)


(***************************************************************************)
(* Properties of the normalizer and of the files                           *)
(***************************************************************************)
\* The row carries, in column_1..column_4, the values of four type fields of
\* the record (of all of them when there are fewer, the other slots being
\* empty), and in additional_data the type fields left
SlotsCarry(record, row) ==
    LET fields == TypeFields(record)
        n == IF Cardinality(fields) < 4 THEN Cardinality(fields) ELSE 4
    IN  \E f \in [1..n -> fields] :
            /\ \A a, b \in 1..n : f[a] = f[b] => a = b
            /\ \A k \in 1..n : row[k_column(k)] = record[f[k]]
            /\ \A k \in (n + 1)..4 : row[k_column(k)] = PyStr(<<>>)
            /\ row[k_additional_data] =
                  PyStrOfDict(DictWithout(record, CommonKeys \cup Range(f)))

\* C15: in the exporter, the row of every table record carries the values
\* of the record's type fields in column_1..column_4 and the type fields
\* that found no slot in additional_data.
C15_SlotsCarryTheTypeFields ==
    pc = "exporter" =>
        \A i \in 1..Len(all_data) :
            all_data[i][k_data_type] = PyStr(s_table_data) =>
                SlotsCarry(all_data[i], data[i])


(***************************************************************************)
(* Properties of the reports of run_scraping                               *)
(***************************************************************************)
\* C16: whenever run_scraping adds the report of a URL, the report's status
\* is 'failed' exactly if that scrape was counted in urls_failed and
\* 'success' exactly if it was counted in urls_successful.
C16_StatusFollowsTheCounters ==
    [][Len(url_reports') = Len(url_reports) + 1 =>
          /\ url_reports'[Len(url_reports')].status = s_failed
                <=> stats'.urls_failed = stats.urls_failed + 1
          /\ url_reports'[Len(url_reports')].status = s_success
                <=> stats'.urls_successful = stats.urls_successful + 1]_vars


\* The rows of one data_type in the combined file
CombinedRowsOf(ty) ==
    SelectSeq(files[CsvName(out_base)].rows, LAMBDA r : r[k_data_type] = PyStr(ty))

\* C17: once both exports are done, the file of every record type holds,
\* column by column and in order, the rows the combined file holds for the
\* records of that type.
C17_TypeFilesRepeatTheCombinedRows ==
    pc = "done" =>
        \A n \in 1..Len(TypesInOrder(data, {})) :
            files[TypeFileName(out_base, TypesInOrder(data, {})[n])].rows
                = CombinedRowsOf(TypesInOrder(data, {})[n])


\* run_scraping has returned and this call has written its summary file
SummaryWritten ==
    pc = "returned" /\ SummaryName(OutputBase(runs)) \in DOMAIN files

\* C18: in the summary file a run_scraping call has written, the overall
\* row's successful_urls and failed_urls add up to its total_urls, the
\* number of URLs of the call, its total_records is the number of records
\* the call exported, and its success_rate is that of at most all the URLs.
C18_SummaryAddsUp ==
    SummaryWritten =>
        \E s \in 0..Len(url_reports) :
            /\ files[SummaryName(OutputBase(runs))].rows[1][k_total_urls]
                  = PyStr(StrOfNat(Len(url_reports)))
            /\ files[SummaryName(OutputBase(runs))].rows[1][k_successful_urls]
                  = PyStr(StrOfNat(s))
            /\ files[SummaryName(OutputBase(runs))].rows[1][k_failed_urls]
                  = PyStr(StrOfNat(Len(url_reports) - s))
            /\ files[SummaryName(OutputBase(runs))].rows[1][k_success_rate]
                  = PyStr(PercentStr(s, Len(url_reports)))
            /\ files[SummaryName(OutputBase(runs))].rows[1][k_total_records]
                  = PyStr(StrOfNat(Len(run_data)))

====
